---- MODULE Spec2Model ----
(***************************************************************************)
(* Model of Fault_Tolerant_Management_System.cpp: the ResourceManager, the *)
(* Resource and Project objects it shares through shared_ptr, the          *)
(* transaction log file and the interactive loop of main().                *)
(*                                                                         *)
(* Objects have identity: resObjs and projObjs are the heaps of Resource   *)
(* and Project objects, a handle is an index into a heap, and the two      *)
(* std::map members of ResourceManager map an id to a handle.  A map       *)
(* entry that is overwritten leaves the old object alive wherever another  *)
(* shared_ptr still holds it.                                              *)
(***************************************************************************)
EXTENDS Integers, Sequences, FiniteSets, TLC

\* ------------------------------------------------------------------ bounds
\* Number of records the log may hold before the mutating commands stop.
MaxLog == 5
\* Number of Resource objects / Project objects ever constructed.
MaxResObjs == 2
MaxProjObjs == 2

\* ------------------------------------------------------------------ inputs
ResIds == {"R1", "R2"}
ProjIds == {"P1", "P2"}
Names == {"Alpha", "Beta"}
TypeChoices == {1, 2}
InvalidChoices == {8}

\* ------------------------------------------------------------- the objects
nullptr == 0

\* Resource::Resource
Resource(i, t) ==
    [id |-> i, type |-> t, state |-> "Idle", allocatedProject |-> nullptr]

\* Project::Project
Project(i, n) == [id |-> i, name |-> n, resources |-> <<>>]

VARIABLES
    resObjs,     \* heap of Resource objects
    projObjs,    \* heap of Project objects
    resources,   \* ResourceManager::resources, id -> handle
    projects,    \* ResourceManager::projects, id -> handle
    log,         \* the lines of resource_log.txt
    pc,          \* "loop" while main is in its do-while, "done" after return
    choice,      \* main's locals, as last read from std::cin
    id,
    name,
    typeChoice,
    cout,        \* what the last command wrote to std::cout after its prompts
    cerr         \* what the catch handler wrote to std::cerr ("" if nothing)

vars == <<resObjs, projObjs, resources, projects, log, pc, choice, id, name,
          typeChoice, cout, cerr>>

\* The memory the ResourceManager methods work on, as one value.
Mem == [resObjs |-> resObjs, projObjs |-> projObjs, resources |-> resources,
        projects |-> projects, log |-> log]

\* A method's outcome: the exception it threw ("" if none), the memory it
\* left, and what it printed.
Ok(m, o) == [exc |-> "", m |-> m, out |-> o]
Throw(e, m) == [exc |-> e, m |-> m, out |-> <<>>]

\* std::map::operator[] used as an assignment
MapPut(f, k, v) == [x \in (DOMAIN f) \cup {k} |-> IF x = k THEN v ELSE f[x]]

\* Resource::setState
setState(m, r, s) == [m EXCEPT !.resObjs[r].state = s]

\* Resource::allocateToProject
allocateToProject(m, r, p) == [m EXCEPT !.resObjs[r].allocatedProject = p]

\* Variant of Project::addResource that sets the back-reference only of a
\* resource that has none yet.
Project_addResource_keepsBackReference(m, p, r) ==
    LET m1 == [m EXCEPT !.projObjs[p].resources = Append(@, r)]
    IN  IF m.resObjs[r].allocatedProject = nullptr
        THEN allocateToProject(m1, r, p)
        ELSE m1

\* Variant of Project::addResource that also erases the resource from the
\* list of the project it was allocated to before.
Project_addResource_unlinksPrevious(m, p, r) ==
    LET q == m.resObjs[r].allocatedProject
        l == IF q = nullptr THEN <<>> ELSE m.projObjs[q].resources
        m0 == IF q = nullptr \/ q = p THEN m
              ELSE [m EXCEPT !.projObjs[q].resources =
                       SelectSeq(l, LAMBDA h : h # r)]
    IN  allocateToProject(
            [m0 EXCEPT !.projObjs[p].resources = Append(@, r)], r, p)

\* Variant of Project::addResource that skips push_back for a resource the
\* project already lists.
Project_addResource_skipsListed(m, p, r) ==
    allocateToProject(
        IF \E k \in 1..Len(m.projObjs[p].resources) :
               m.projObjs[p].resources[k] = r
        THEN m
        ELSE [m EXCEPT !.projObjs[p].resources = Append(@, r)], r, p)

\* Project::addResource: push_back, then set the back-reference
Project_addResource(m, p, r) ==
    allocateToProject(
        [m EXCEPT !.projObjs[p].resources = Append(@, r)], r, p)

\* Variant of logTransaction that opens the file without std::ios_base::app.
logTransaction_truncates(m, message) == [m EXCEPT !.log = <<message>>]

\* ResourceManager::logTransaction
logTransaction(m, message) == [m EXCEPT !.log = Append(@, message)]

\* Variant of addResource that keeps the entry of an id already present
\* (std::map::emplace instead of operator[]).
addResource_keepsExisting(m, i, t) ==
    IF i \in DOMAIN m.resources THEN m
    ELSE [m EXCEPT !.resObjs = Append(@, Resource(i, t)),
                   !.resources = MapPut(@, i, Len(m.resObjs) + 1)]

\* ResourceManager::addResource
addResource(m, i, t) ==
    LET h == Len(m.resObjs) + 1
    IN  [m EXCEPT !.resObjs = Append(@, Resource(i, t)),
                  !.resources = MapPut(@, i, h)]

\* ResourceManager::addProject
addProject(m, i, n) ==
    LET h == Len(m.projObjs) + 1
    IN  [m EXCEPT !.projObjs = Append(@, Project(i, n)),
                  !.projects = MapPut(@, i, h)]

\* ResourceManager::getResource / getProject: the handle, or nullptr where
\* the method throws
getResource(m, i) == IF i \in DOMAIN m.resources THEN m.resources[i] ELSE nullptr
getProject(m, i) == IF i \in DOMAIN m.projects THEN m.projects[i] ELSE nullptr

ResourceNotFound == "Resource not found"
ProjectNotFound == "Project not found"

\* Variant of allocateResourceToProject without the setState(InUse) call.
allocateResourceToProject_noSetState(m, resourceId, project) ==
    LET resource == getResource(m, resourceId)
    IN  IF resource = nullptr THEN Throw(ResourceNotFound, m)
        ELSE LET m2 == Project_addResource(m, project, resource)
                 m3 == logTransaction(m2,
                          <<"Resource ", resourceId, " allocated to project ",
                            m2.projObjs[project].name>>)
             IN  Ok(m3, <<>>)

\* ResourceManager::allocateResourceToProject
allocateResourceToProject(m, resourceId, project) ==
    LET resource == getResource(m, resourceId)
    IN  IF resource = nullptr THEN Throw(ResourceNotFound, m)
        ELSE LET m1 == setState(m, resource, "InUse")
                 m2 == Project_addResource(m1, project, resource)
                 m3 == logTransaction(m2,
                          <<"Resource ", resourceId, " allocated to project ",
                            m2.projObjs[project].name>>)
             IN  Ok(m3, <<>>)

\* Variant of displayResourceState that names the project for InUse too.
displayResourceState_namesProjectInUse(m, i) ==
    LET resource == getResource(m, i)
    IN  IF resource = nullptr THEN Throw(ResourceNotFound, m)
        ELSE LET r == m.resObjs[resource]
                 project == r.allocatedProject
                 tail == IF project # nullptr
                         THEN <<" and allocated to project ",
                                m.projObjs[project].name>>
                         ELSE <<>>
                 text == CASE r.state = "Idle" -> <<"Idle">>
                           [] r.state = "InUse" -> <<"In Use">> \o tail
                           [] r.state = "UnderMaintenance" ->
                                <<"under maintenance">> \o tail
             IN  Ok(m, <<"Resource ", i, " is ">> \o text \o <<".">>)

\* ResourceManager::displayResourceState
displayResourceState(m, i) ==
    LET resource == getResource(m, i)
    IN  IF resource = nullptr THEN Throw(ResourceNotFound, m)
        ELSE LET r == m.resObjs[resource]
                 project == r.allocatedProject
                 text == CASE r.state = "Idle" -> <<"Idle">>
                           [] r.state = "InUse" -> <<"In Use">>
                           [] r.state = "UnderMaintenance" ->
                                IF project # nullptr
                                THEN <<"under maintenance",
                                       " and allocated to project ",
                                       m.projObjs[project].name>>
                                ELSE <<"under maintenance">>
             IN  Ok(m, <<"Resource ", i, " is ">> \o text \o <<".">>)

\* Variant of maintainResource without the type test.
maintainResource_noTypeCheck(m, i) ==
    LET resource == getResource(m, i)
    IN  IF resource = nullptr THEN Throw(ResourceNotFound, m)
        ELSE Ok(logTransaction(setState(m, resource, "UnderMaintenance"),
                               <<"Resource ", i, " is under maintenance.">>),
                <<"Resource ", i, " is under maintenance.">>)

\* Variant of maintainResource without the logTransaction call.
maintainResource_noLog(m, i) ==
    LET resource == getResource(m, i)
    IN  IF resource = nullptr THEN Throw(ResourceNotFound, m)
        ELSE IF m.resObjs[resource].type = "equipment"
             THEN Ok(setState(m, resource, "UnderMaintenance"),
                     <<"Resource ", i, " is under maintenance.">>)
             ELSE Ok(m, <<"Resource ", i,
                          " is not equipment and cannot be maintained.">>)

\* Variant of maintainResource with the type test inverted.
maintainResource_invertedTest(m, i) ==
    LET resource == getResource(m, i)
    IN  IF resource = nullptr THEN Throw(ResourceNotFound, m)
        ELSE IF m.resObjs[resource].type # "equipment"
             THEN Ok(logTransaction(setState(m, resource, "UnderMaintenance"),
                                    <<"Resource ", i, " is under maintenance.">>),
                     <<"Resource ", i, " is under maintenance.">>)
             ELSE Ok(m, <<"Resource ", i,
                          " is not equipment and cannot be maintained.">>)

\* ResourceManager::maintainResource
maintainResource(m, i) ==
    LET resource == getResource(m, i)
    IN  IF resource = nullptr THEN Throw(ResourceNotFound, m)
        ELSE IF m.resObjs[resource].type = "equipment"
             THEN Ok(logTransaction(setState(m, resource, "UnderMaintenance"),
                                    <<"Resource ", i, " is under maintenance.">>),
                     <<"Resource ", i, " is under maintenance.">>)
             ELSE Ok(m, <<"Resource ", i,
                          " is not equipment and cannot be maintained.">>)

\* ------------------------------------------------------------------- main
\* main, case 1: Add Resource
case1(m, i, tc) ==
    LET t == IF tc = 1 THEN "worker" ELSE "equipment"
    IN  Ok(logTransaction(addResource(m, i, t),
                          <<"Resource ", i, " of type ", t, " added.">>),
           <<"Resource ", i, " of type ", t, " added.">>)

\* Variant of case 2 that also clears the resource's back-reference.
case2_clearsAllocation(m, i) ==
    LET resource == getResource(m, i)
    IN  IF resource = nullptr THEN Throw(ResourceNotFound, m)
        ELSE Ok(logTransaction(
                    allocateToProject(setState(m, resource, "InUse"),
                                      resource, nullptr),
                    <<"Resource ", i, " is now in use.">>),
                <<"Resource ", i, " is now in use.">>)

\* main, case 2: Use Resource
case2(m, i) ==
    LET resource == getResource(m, i)
    IN  IF resource = nullptr THEN Throw(ResourceNotFound, m)
        ELSE Ok(logTransaction(setState(m, resource, "InUse"),
                               <<"Resource ", i, " is now in use.">>),
                <<"Resource ", i, " is now in use.">>)

\* main, case 3: Maintain Resource
case3(m, i) == maintainResource(m, i)

\* main, case 4: Add Project
case4(m, i, n) ==
    Ok(logTransaction(addProject(m, i, n),
                      <<"Project ", i, " named ", n, " added.">>),
       <<"Project ", i, " named ", n, " added.">>)

\* Variant of case 5 that marks the resource InUse before it looks the
\* project up.
case5_mutatesBeforeLookup(m, i, n) ==
    LET resource == getResource(m, i)
        m0 == IF resource = nullptr THEN m ELSE setState(m, resource, "InUse")
        project == getProject(m0, n)
    IN  IF project = nullptr THEN Throw(ProjectNotFound, m0)
        ELSE LET r == allocateResourceToProject(m0, i, project)
             IN  IF r.exc # "" THEN r
                 ELSE Ok(r.m, <<"Resource ", i, " allocated to project ", n, ".">>)

\* main, case 5: Allocate Resource to Project.  The argument rm.getProject
\* is evaluated before allocateResourceToProject is entered.
case5(m, i, n) ==
    LET project == getProject(m, n)
    IN  IF project = nullptr THEN Throw(ProjectNotFound, m)
        ELSE LET r == allocateResourceToProject(m, i, project)
             IN  IF r.exc # "" THEN r
                 ELSE Ok(r.m, <<"Resource ", i, " allocated to project ", n, ".">>)

\* main, case 6: Display Resource State
case6(m, i) == displayResourceState(m, i)

\* One pass of the do-while body with outcome r: the memory is what the
\* command left; an exception leaves the loop through the catch handler,
\* which prints e.what() and falls through to return 0.
Step(r, c) ==
    /\ resObjs' = r.m.resObjs
    /\ projObjs' = r.m.projObjs
    /\ resources' = r.m.resources
    /\ projects' = r.m.projects
    /\ log' = r.m.log
    /\ choice' = c
    /\ cout' = r.out
    /\ cerr' = r.exc
    /\ pc' = IF r.exc # "" THEN "done" ELSE "loop"

\* the model stops constructing objects and logging at its bounds
RoomInLog == Len(log) < MaxLog

AddResource(i, tc) ==
    /\ pc = "loop" /\ RoomInLog /\ Len(resObjs) < MaxResObjs
    /\ id' = i /\ typeChoice' = tc /\ UNCHANGED name
    /\ Step(case1(Mem, i, tc), 1)

UseResource(i) ==
    /\ pc = "loop" /\ RoomInLog
    /\ id' = i /\ UNCHANGED <<name, typeChoice>>
    /\ Step(case2(Mem, i), 2)

MaintainResource(i) ==
    /\ pc = "loop" /\ RoomInLog
    /\ id' = i /\ UNCHANGED <<name, typeChoice>>
    /\ Step(case3(Mem, i), 3)

AddProject(i, n) ==
    /\ pc = "loop" /\ RoomInLog /\ Len(projObjs) < MaxProjObjs
    /\ id' = i /\ name' = n /\ UNCHANGED typeChoice
    /\ Step(case4(Mem, i, n), 4)

\* std::cin >> name reads the project id into main's `name`
AllocateResource(i, p) ==
    /\ pc = "loop" /\ RoomInLog
    /\ id' = i /\ name' = p /\ UNCHANGED typeChoice
    /\ Step(case5(Mem, i, p), 5)

DisplayResource(i) ==
    /\ pc = "loop"
    /\ id' = i /\ UNCHANGED <<name, typeChoice>>
    /\ Step(case6(Mem, i), 6)

\* main, case 7 and the loop condition choice != 7
Exit ==
    /\ pc = "loop"
    /\ choice' = 7 /\ pc' = "done"
    /\ cout' = <<"Exiting...">> /\ cerr' = ""
    /\ UNCHANGED <<resObjs, projObjs, resources, projects, log, id, name,
                   typeChoice>>

\* main, default
Invalid(c) ==
    /\ pc = "loop"
    /\ choice' = c /\ pc' = "loop"
    /\ cout' = <<"Invalid choice. Please try again.">> /\ cerr' = ""
    /\ UNCHANGED <<resObjs, projObjs, resources, projects, log, id, name,
                   typeChoice>>

\* State after `ResourceManager rm;` and the declarations of main's locals.
\* choice and typeChoice are indeterminate there and are written by
\* std::cin before they are read; 0 stands for "not read yet".
Init ==
    /\ resObjs = <<>>
    /\ projObjs = <<>>
    /\ resources = <<>>
    /\ projects = <<>>
    /\ log = <<>>
    /\ pc = "loop"
    /\ choice = 0
    /\ id = ""
    /\ name = ""
    /\ typeChoice = 0
    /\ cout = <<>>
    /\ cerr = ""

Next ==
    \/ \E i \in ResIds, tc \in TypeChoices : AddResource(i, tc)
    \/ \E i \in ResIds : UseResource(i)
    \/ \E i \in ResIds : MaintainResource(i)
    \/ \E i \in ProjIds, n \in Names : AddProject(i, n)
    \/ \E i \in ResIds, p \in ProjIds : AllocateResource(i, p)
    \/ \E i \in ResIds : DisplayResource(i)
    \/ Exit
    \/ \E c \in InvalidChoices : Invalid(c)

Spec == Init /\ [][Next]_vars

\* ------------------------------------------------------------ the registry
\* The Resource / Project the registry currently holds under an id.
Res(i) == resObjs[resources[i]]
Proj(p) == projObjs[projects[p]]

Registered(i) == i \in DOMAIN resources
RegisteredProject(p) == p \in DOMAIN projects

Data == <<resObjs, projObjs, resources, projects, log>>

\* C1: registerResource with an id already in the resource mapping fails
\* (DuplicateId is reported) and the registered resource keeps its type,
\* state and project back-reference.
C1_DuplicateResourceRejected ==
    [][\A i \in ResIds, tc \in TypeChoices :
         (AddResource(i, tc) /\ Registered(i)) =>
            /\ cerr' # ""
            /\ Registered(i)'
            /\ Res(i)' = Res(i)
            /\ UNCHANGED Data]_vars

\* C2: registerProject with an id already in the project mapping fails
\* (DuplicateId is reported) and the registered project keeps its name and
\* its ordered resource list.
C2_DuplicateProjectRejected ==
    [][\A p \in ProjIds, n \in Names :
         (AddProject(p, n) /\ RegisteredProject(p)) =>
            /\ cerr' # ""
            /\ RegisteredProject(p)'
            /\ Proj(p)' = Proj(p)
            /\ UNCHANGED Data]_vars

\* C3: markInUse, maintain, describeState and allocate given an id that was
\* never registered fail with NotFound and change no resource, no project,
\* neither mapping and not the log.
C3_NotFoundHasNoEffect ==
    [][/\ \A i \in ResIds :
            ((UseResource(i) \/ MaintainResource(i) \/ DisplayResource(i))
                /\ ~Registered(i)) =>
               (cerr' = ResourceNotFound /\ UNCHANGED Data)
       /\ \A i \in ResIds, p \in ProjIds :
            (AllocateResource(i, p)
                /\ (~Registered(i) \/ ~RegisteredProject(p))) =>
               (cerr' \in {ResourceNotFound, ProjectNotFound}
                   /\ UNCHANGED Data)]_vars

\* An allocate of a registered resource to a missing project has failed,
\* after the resource had left Idle with a log record of its own.
C3_Witness ==
    /\ choice = 5 /\ cerr = ProjectNotFound
    /\ Registered(id) /\ ~RegisteredProject(name)
    /\ Res(id).state = "UnderMaintenance"
    /\ Len(log) >= 2

\* C4: a failed command only aborts that command: after a reported failure
\* the shell is still in its loop, and main returns only through Exit.
C4_ShellContinuesAfterFailure ==
    /\ cerr # "" => pc = "loop"
    /\ pc = "done" => choice = 7

\* C5: allocate(r, p) of a registered resource to a registered project
\* leaves r InUse with back-reference p, appends r to the end of p's list
\* and appends the one log record naming r and p's name.
C5_AllocateEffect ==
    [][\A i \in ResIds, p \in ProjIds :
         (AllocateResource(i, p) /\ Registered(i) /\ RegisteredProject(p)) =>
            /\ cerr' = ""
            /\ resources' = resources /\ projects' = projects
            /\ Res(i)' = [Res(i) EXCEPT !.state = "InUse",
                                        !.allocatedProject = projects[p]]
            /\ Proj(p)' = [Proj(p) EXCEPT
                              !.resources = Append(@, resources[i])]
            /\ \A h \in 1..Len(resObjs) :
                  h # resources[i] => resObjs'[h] = resObjs[h]
            /\ \A h \in 1..Len(projObjs) :
                  h # projects[p] => projObjs'[h] = projObjs[h]
            /\ log' = Append(log, <<"Resource ", i, " allocated to project ",
                                    Proj(p).name>>)]_vars

\* The same allocate has been issued twice in a row: the project lists the
\* resource twice.
C5_Witness ==
    /\ choice = 5 /\ cerr = ""
    /\ Registered(id) /\ RegisteredProject(name)
    /\ LET l == Proj(name).resources
       IN  /\ Len(l) >= 2
           /\ l[Len(l)] = resources[id]
           /\ l[Len(l) - 1] = resources[id]

\* C6: maintain(r) on a registered worker changes no resource, no project,
\* neither mapping and not the log.
C6_MaintainWorkerNoEffect ==
    [][\A i \in ResIds :
         (MaintainResource(i) /\ Registered(i) /\ Res(i).type = "worker") =>
            (cerr' = "" /\ UNCHANGED Data)]_vars

\* maintain has run on a worker that is InUse and allocated.
C6_Witness ==
    /\ choice = 3 /\ cerr = ""
    /\ Registered(id)
    /\ Res(id).type = "worker"
    /\ Res(id).state = "InUse"
    /\ Res(id).allocatedProject # nullptr

\* C7: maintain(r) on registered equipment sets r UnderMaintenance, appends
\* the one record "Resource r is under maintenance." and leaves r's
\* back-reference, the other resources and every project as they were.
C7_MaintainEquipmentEffect ==
    [][\A i \in ResIds :
         (MaintainResource(i) /\ Registered(i) /\ Res(i).type = "equipment") =>
            /\ cerr' = ""
            /\ resources' = resources /\ projects' = projects
            /\ Res(i)' = [Res(i) EXCEPT !.state = "UnderMaintenance"]
            /\ \A h \in 1..Len(resObjs) :
                  h # resources[i] => resObjs'[h] = resObjs[h]
            /\ projObjs' = projObjs
            /\ log' = Append(log, <<"Resource ", i, " is under maintenance.">>)]_vars

\* maintain has run on equipment that was allocated before.
C7_Witness ==
    /\ choice = 3 /\ cerr = ""
    /\ Registered(id)
    /\ Res(id).type = "equipment"
    /\ Res(id).state = "UnderMaintenance"
    /\ Res(id).allocatedProject # nullptr

\* C8: a resource that is UnderMaintenance is equipment.
C8_OnlyEquipmentUnderMaintenance ==
    \A h \in 1..Len(resObjs) :
        resObjs[h].state = "UnderMaintenance" => resObjs[h].type = "equipment"

\* maintain has run on a worker while some equipment is UnderMaintenance.
C8_Witness ==
    /\ choice = 3 /\ cerr = ""
    /\ Registered(id) /\ Res(id).type = "worker"
    /\ \E j \in DOMAIN resources : Res(j).state = "UnderMaintenance"

\* C9: a resource that is Idle has no project back-reference.
C9_IdleHasNoProject ==
    \A h \in 1..Len(resObjs) :
        resObjs[h].state = "Idle" => resObjs[h].allocatedProject = nullptr

\* One resource is Idle while another has been allocated.
C9_Witness ==
    /\ choice = 5 /\ cerr = ""
    /\ Res(id).allocatedProject # nullptr
    /\ \E j \in DOMAIN resources : Res(j).state = "Idle"

\* C10: every resource in a project's list has that project as its
\* back-reference.
C10_ListedResourcePointsBack ==
    \A p \in DOMAIN projects :
        \A k \in 1..Len(Proj(p).resources) :
            resObjs[Proj(p).resources[k]].allocatedProject = projects[p]

\* ----------------------------------------------------------- later claims
\* The handles a sequence of handles holds.
Listed(l) == {l[k] : k \in 1..Len(l)}

\* l is an initial segment of l2.
IsPrefix(l, l2) == Len(l) <= Len(l2) /\ SubSeq(l2, 1, Len(l)) = l

\* C11: no orphans: a resource in a registered project's list is the one
\* the registry holds under its id, and the project a registered resource
\* points back to is the one the registry holds under its id.
C11_NoOrphans ==
    /\ \A p \in DOMAIN projects :
          \A h \in Listed(Proj(p).resources) :
              /\ Registered(resObjs[h].id)
              /\ resources[resObjs[h].id] = h
    /\ \A i \in DOMAIN resources :
          LET q == Res(i).allocatedProject
          IN  q # nullptr =>
                 /\ RegisteredProject(projObjs[q].id)
                 /\ projects[projObjs[q].id] = q

\* C12: once the state recorded for a resource id is InUse or
\* UnderMaintenance, no command makes it Idle.
C12_NeverBackToIdle ==
    [][\A i \in ResIds :
         (Registered(i) /\ Res(i).state # "Idle") =>
            (Registered(i)' /\ Res(i)'.state # "Idle")]_vars

\* The commands that complete a mutation, and those that do not.
Mutation ==
    \/ \E i \in ResIds, tc \in TypeChoices : AddResource(i, tc)
    \/ \E p \in ProjIds, n \in Names : AddProject(p, n)
    \/ \E i \in ResIds : UseResource(i) /\ Registered(i)
    \/ \E i \in ResIds :
          MaintainResource(i) /\ Registered(i) /\ Res(i).type = "equipment"
    \/ \E i \in ResIds, p \in ProjIds :
          AllocateResource(i, p) /\ Registered(i) /\ RegisteredProject(p)

\* C13: the log is append-only with one record per completed mutation: a
\* successful register, markInUse, maintain on equipment or allocate puts
\* exactly one record at the end, and any other command leaves the log as
\* it was.
C13_LogAppendOnly ==
    [][/\ Mutation => (Len(log') = Len(log) + 1 /\ IsPrefix(log, log'))
       /\ ~Mutation => log' = log]_vars

\* maintain on a worker has added nothing to a log of four records or more.
C13_Witness ==
    /\ choice = 3 /\ cerr = ""
    /\ Registered(id) /\ Res(id).type = "worker"
    /\ Len(log) >= 4

\* C14: registerResource(r, t) followed immediately by describeState(r)
\* yields "Idle", also when r was registered before and had left Idle.
C14_RegisterThenDescribeIdle ==
    [][\A i \in ResIds :
         (choice = 1 /\ id = i /\ DisplayResource(i)) =>
            cout' = <<"Resource ", i, " is ", "Idle", ".">>]_vars

\* describeState has run right after the second registration of an id
\* whose first resource had left Idle.
C14_Witness ==
    /\ choice = 6 /\ cerr = ""
    /\ Len(resObjs) >= 2
    /\ resObjs[1].id = id /\ resObjs[1].state # "Idle"
    /\ resources[id] # 1
    /\ Len(log) >= 1
    /\ \E t \in {"worker", "equipment"} :
          log[Len(log)] = <<"Resource ", id, " of type ", t, " added.">>

\* The text describeState is specified to produce for a resource object.
Description(r) ==
    IF r.state = "Idle" THEN <<"Idle">>
    ELSE IF r.state = "InUse" THEN <<"In Use">>
    ELSE IF r.allocatedProject = nullptr THEN <<"under maintenance">>
    ELSE <<"under maintenance", " and allocated to project ",
           projObjs[r.allocatedProject].name>>

\* C15: describeState(r) on a registered resource changes nothing and
\* prints "Idle", "In Use" (never with a project), "under maintenance", or
\* "under maintenance and allocated to project {name}" when r is
\* UnderMaintenance with a back-reference.
C15_DescribeState ==
    [][\A i \in ResIds :
         (DisplayResource(i) /\ Registered(i)) =>
            /\ cerr' = ""
            /\ UNCHANGED Data
            /\ cout' = <<"Resource ", i, " is ">> \o Description(Res(i))
                          \o <<".">>]_vars

\* describeState has run on a resource that is UnderMaintenance and has a
\* back-reference, and has named the project.
C15_Witness ==
    /\ choice = 6 /\ cerr = ""
    /\ Registered(id)
    /\ Res(id).state = "UnderMaintenance"
    /\ Res(id).allocatedProject # nullptr
    /\ Len(cout) = 7
    /\ cout[6] = projObjs[Res(id).allocatedProject].name

\* C16: markInUse(r) on a registered resource sets r InUse, appends the
\* one record "Resource r is now in use." and leaves r's back-reference,
\* the other resources and every project as they were.
C16_MarkInUseEffect ==
    [][\A i \in ResIds :
         (UseResource(i) /\ Registered(i)) =>
            /\ cerr' = ""
            /\ resources' = resources /\ projects' = projects
            /\ Res(i)' = [Res(i) EXCEPT !.state = "InUse"]
            /\ \A h \in 1..Len(resObjs) :
                  h # resources[i] => resObjs'[h] = resObjs[h]
            /\ projObjs' = projObjs
            /\ log' = Append(log, <<"Resource ", i, " is now in use.">>)]_vars

\* markInUse has run on equipment that was put under maintenance after it
\* had been allocated.
C16_Witness ==
    /\ choice = 2 /\ cerr = ""
    /\ Registered(id)
    /\ Res(id).state = "InUse"
    /\ Res(id).allocatedProject # nullptr
    /\ Len(log) >= 2
    /\ log[Len(log)] = <<"Resource ", id, " is now in use.">>
    /\ log[Len(log) - 1] = <<"Resource ", id, " is under maintenance.">>

\* C17: allocating a resource that is allocated to another project makes
\* the new project its back-reference and appends it to the new project's
\* list, while the old project's list stays as it was, so both list it.
C17_StaleForwardReference ==
    [][\A i \in ResIds, p \in ProjIds :
         (/\ AllocateResource(i, p)
          /\ Registered(i) /\ RegisteredProject(p)
          /\ Res(i).allocatedProject \notin {nullptr, projects[p]}) =>
            LET r == resources[i]
                q == Res(i).allocatedProject
            IN  /\ resObjs'[r].allocatedProject = projects[p]
                /\ projObjs'[projects[p]].resources =
                      Append(projObjs[projects[p]].resources, r)
                /\ projObjs'[q].resources = projObjs[q].resources
                /\ r \in Listed(projObjs'[q].resources)
                /\ r \in Listed(projObjs'[projects[p]].resources)]_vars

\* A resource has just been allocated to one registered project while
\* another registered project still lists it.
C17_Witness ==
    /\ choice = 5 /\ cerr = ""
    /\ Registered(id) /\ RegisteredProject(name)
    /\ Res(id).allocatedProject = projects[name]
    /\ \E q \in DOMAIN projects :
          /\ projects[q] # projects[name]
          /\ resources[id] \in Listed(Proj(q).resources)

\* The resource object a successful allocate step acts on is h, and the
\* project object is q.
AllocatesTo(h, q) ==
    \E i \in ResIds, p \in ProjIds :
        /\ AllocateResource(i, p)
        /\ Registered(i) /\ RegisteredProject(p)
        /\ resources[i] = h /\ projects[p] = q

\* C18: a resource with a back-reference to p occurs in p's list, a
\* resource has a back-reference exactly when some list holds it, and the
\* back-reference is the project of the latest successful allocate of the
\* resource: a new resource has none, an allocate sets it to its project
\* and no other command changes it.
C18_BackReferenceIsLastAllocation ==
    /\ [](\A h \in 1..Len(resObjs) :
            LET q == resObjs[h].allocatedProject
            IN  /\ q # nullptr => h \in Listed(projObjs[q].resources)
                /\ q = nullptr =>
                      \A x \in 1..Len(projObjs) :
                          h \notin Listed(projObjs[x].resources))
    /\ [][\A h \in 1..Len(resObjs') :
            IF h > Len(resObjs)
            THEN resObjs'[h].allocatedProject = nullptr
            ELSE IF \E q \in 1..Len(projObjs) : AllocatesTo(h, q)
                 THEN AllocatesTo(h, resObjs'[h].allocatedProject)
                 ELSE resObjs'[h].allocatedProject =
                         resObjs[h].allocatedProject]_vars

\* A resource that two projects list points back to the one it was
\* allocated to last.
C18_Witness ==
    /\ choice = 5 /\ cerr = ""
    /\ Registered(id) /\ RegisteredProject(name)
    /\ Res(id).allocatedProject = projects[name]
    /\ \E x \in 1..Len(projObjs) :
          /\ x # projects[name]
          /\ resources[id] \in Listed(projObjs[x].resources)
    /\ resources[id] \in Listed(Proj(name).resources)

\* C19: across any command the list the registry holds for a project id
\* is a prefix of the list it holds for that id afterwards.
C19_ProjectListOnlyGrows ==
    [][\A p \in ProjIds :
         RegisteredProject(p) =>
            /\ RegisteredProject(p)'
            /\ IsPrefix(Proj(p).resources, Proj(p)'.resources)]_vars

====
